---------------------------- MODULE Spec2Model ----------------------------
(***************************************************************************)
(* Model of src/load_imat_to_postgres.py: the iMaterialist bulk loader.    *)
(* The store is the five tables of schema "raw"; a table is the sequence   *)
(* of its rows in insertion order.  One action is one statement sent to    *)
(* the store (every statement is its own transaction: autocommit=True) or  *)
(* one step of a streaming loop.                                           *)
(***************************************************************************)
EXTENDS Integers, Sequences, FiniteSets, TLC

(* ------------------------------ bounds --------------------------------- *)
\* longest "images" array of a document
MaxImages == 3
\* longest "annotations" array of a document
MaxAnns == 2
\* largest batch_size passed explicitly to the two streaming loaders
MaxBatch == 2

\* batch_size: int = 20000, the value every call made by load_imat_split uses
DefaultBatchSize == 20000

Splits == {"train", "validation"}

(* --------------------------- input documents --------------------------- *)
Url(i) == "http://x/" \o ToString(i) \o ".jpg"
LabelsOf(i) == IF i = 1 THEN <<"5", "9">> ELSE <<"95", "66", "12">>

GoodImage(i) == [imageId |-> ToString(i), url |-> Url(i)]
NoUrlImage(i) == [imageId |-> ToString(i)]
GoodAnn(i) == [imageId |-> ToString(i), labelId |-> LabelsOf(i)]
NoLabelAnn(i) == [imageId |-> ToString(i)]

\* a JSON object is the sequence of its <<key, value>> members
InfoObj == << <<"year", "2020">> >>
LicenseObj == << <<"name", "CC">> >>

GoodImages(n) == [i \in 1..n |-> GoodImage(i)]
GoodAnns(n) == [i \in 1..n |-> GoodAnn(i)]

\* arrays of the documents explored: every well-formed length, an element
\* without "url" at every position, and a repeated imageId
ImageArrays ==
    {GoodImages(n) : n \in 0..MaxImages}
    \cup {[i \in 1..MaxImages |-> IF i = k THEN NoUrlImage(i) ELSE GoodImage(i)] :
             k \in 1..MaxImages}
    \cup {<<GoodImage(1), GoodImage(1)>>}

AnnArrays ==
    {GoodAnns(n) : n \in 0..MaxAnns}
    \cup {[i \in 1..n |-> IF i = n THEN NoLabelAnn(i) ELSE GoodAnn(i)] :
             n \in 1..MaxAnns}

\* the parsed top-level object of a split file; "info" and "license" are
\* optional keys
Document(hasInfo, hasLicense, imgs, anns) ==
    CASE hasInfo /\ hasLicense ->
           [info |-> InfoObj, license |-> LicenseObj, images |-> imgs, annotations |-> anns]
      [] hasInfo /\ ~hasLicense ->
           [info |-> InfoObj, images |-> imgs, annotations |-> anns]
      [] ~hasInfo /\ hasLicense ->
           [license |-> LicenseObj, images |-> imgs, annotations |-> anns]
      [] OTHER ->
           [images |-> imgs, annotations |-> anns]

\* a path at which no file exists
NoFile == [nofile |-> TRUE]

Docs ==
    {Document(hi, hl, imgs, anns) :
        hi \in BOOLEAN, hl \in BOOLEAN, imgs \in ImageArrays, anns \in AnnArrays}
    \cup {NoFile}

(* ------------------------------ state ---------------------------------- *)
VARIABLES
    images,       \* raw.imat_images
    annotations,  \* raw.imat_annotations
    info,         \* raw.imat_info
    license,      \* raw.imat_license
    label_map,    \* raw.imat_label_map
    schema,       \* the objects of create_schema_and_tables that exist
    conn,         \* "none", "open", "closed"
    imat_dir,     \* main: the files of the directory
    json,         \* load: the file at json_path
    split,        \* load: the split argument
    batch_size,   \* load: batch_size of the two streaming loaders
    pc,           \* position inside load_imat_split
    mpc,          \* position inside main
    err,          \* the exception raised, "none" while running
    faulted,      \* the store has refused a statement
    buffer,       \* local: rows waiting for the next flush
    total,        \* local: rows flushed so far
    pos,          \* local: elements taken from the stream
    log,          \* notices printed
    trace,        \* statements the current load has sent to the store
    start,        \* the four split tables when the current load began
    prev_err,     \* how the previous load of the harness ended
    store0        \* the four split tables in the initial state

tables == <<images, annotations, info, license, label_map>>
locals == <<buffer, total, pos>>
inputs == <<imat_dir, json, split, batch_size, store0>>
vars == <<images, annotations, info, license, label_map, schema, conn, imat_dir,
          json, split, batch_size, pc, mpc, err, faulted, buffer, total, pos,
          log, trace, start, prev_err, store0>>

Snapshot == [images |-> images, annotations |-> annotations,
             info |-> info, license |-> license]

(* --------------------------- pure functions ---------------------------- *)
\* path.exists()
exists(path) == "nofile" \notin DOMAIN path

\* int("12")
int(s) == CHOOSE n \in 0..99 : ToString(n) = s

\* json.dumps of a list of strings, as the tokens of the text
RECURSIVE json_items(_)
json_items(l) ==
    IF l = <<>> THEN <<>>
    ELSE IF Len(l) = 1 THEN << <<"str", l[1]>> >>
    ELSE << <<"str", l[1]>>, <<",">> >> \o json_items(Tail(l))

json_dumps_reversed(l) ==
    << <<"[">> >> \o json_items([i \in 1..Len(l) |-> l[Len(l) + 1 - i]]) \o << <<"]">> >>
json_dumps(l) == << <<"[">> >> \o json_items(l) \o << <<"]">> >>

\* json.dumps of an object
RECURSIVE json_members(_)
json_members(o) ==
    IF o = <<>> THEN <<>>
    ELSE LET m == << <<"str", o[1][1]>>, <<":">>, <<"str", o[1][2]>> >>
         IN IF Len(o) = 1 THEN m ELSE m \o << <<",">> >> \o json_members(Tail(o))

json_dumps_object(o) == << <<"{">> >> \o json_members(o) \o << <<"}">> >>

\* the store reading a JSONB column: the strings of the text, in order,
\* paired into members when the text is an object
jsonb_in(text) ==
    LET strs == SelectSeq(text, LAMBDA t : t[1] = "str")
    IN IF text[1] = <<"{">>
       THEN [i \in 1..(Len(strs) \div 2) |-> <<strs[2 * i - 1][2], strs[2 * i][2]>>]
       ELSE [i \in 1..Len(strs) |-> strs[i][2]]

\* csv.writer.writerow: every field as text; ints are the columns named
csv_writerow(r, intcols) ==
    [i \in 1..Len(r) |-> IF i \in intcols THEN ToString(r[i]) ELSE r[i]]

\* the columns of a table that hold integers
IntCols(table_name) ==
    CASE table_name = "raw.imat_images" -> {2}
      [] table_name = "raw.imat_annotations" -> {2}
      [] table_name = "raw.imat_label_map" -> {1, 2}
      [] OTHER -> {}

\* the store reading one CSV line into a row of the table
RowIn(table_name, f) ==
    CASE table_name = "raw.imat_images" ->
           [split |-> f[1], image_id |-> int(f[2]), url |-> f[3]]
      [] table_name = "raw.imat_annotations" ->
           [split |-> f[1], image_id |-> int(f[2]), label_ids |-> jsonb_in(f[3])]
      [] table_name = "raw.imat_info" ->
           [split |-> f[1], info |-> jsonb_in(f[2])]
      [] table_name = "raw.imat_license" ->
           [split |-> f[1], license |-> jsonb_in(f[2])]
      [] OTHER ->
           [label_id |-> int(f[1]), task_id |-> int(f[2]),
            label_name |-> f[3], task_name |-> f[4]]

\* the PRIMARY KEY of a row
PrimaryKey(table_name, r) ==
    CASE table_name \in {"raw.imat_images", "raw.imat_annotations"} ->
           <<r.split, r.image_id>>
      [] table_name \in {"raw.imat_info", "raw.imat_license"} -> <<r.split>>
      [] OTHER -> <<r.label_id>>

\* COPY table FROM STDIN: one statement, all rows or none
copy_rows(table_name, table, rows) ==
    LET new == [i \in 1..Len(rows) |->
                   RowIn(table_name, csv_writerow(rows[i], IntCols(table_name)))]
        all == table \o new
        unique == \A i, j \in 1..Len(all) :
                     i # j => PrimaryKey(table_name, all[i]) # PrimaryKey(table_name, all[j])
    IN IF unique THEN [err |-> "none", table |-> all]
       ELSE [err |-> "UniqueViolation", table |-> table]

\* DELETE FROM table WHERE split = %s
DeleteEverything(table, s) == <<>>
DeleteNothing(table, s) == table
DeleteSplit(table, s) == SelectSeq(table, LAMBDA r : r.split # s)

RowsOf(table, s) == SelectSeq(table, LAMBDA r : r.split = s)

(* ------------------------- element transforms -------------------------- *)
\* image_id = int(img["imageId"]); url = str(img["url"]): the row to buffer,
\* or the KeyError of a missing field
image_rows_skipping(s, img) ==
    IF "imageId" \notin DOMAIN img \/ "url" \notin DOMAIN img
    THEN [err |-> "none", rows |-> <<>>]
    ELSE [err |-> "none", rows |-> << <<s, int(img.imageId), img.url>> >>]
image_rows(s, img) ==
    IF "imageId" \notin DOMAIN img \/ "url" \notin DOMAIN img
    THEN [err |-> "KeyError", rows |-> <<>>]
    ELSE [err |-> "none", rows |-> << <<s, int(img.imageId), img.url>> >>]

\* image_id = int(ann["imageId"]); label_ids = ann["labelId"]
annotation_rows(s, ann) ==
    IF "imageId" \notin DOMAIN ann \/ "labelId" \notin DOMAIN ann
    THEN [err |-> "KeyError", rows |-> <<>>]
    ELSE [err |-> "none",
          rows |-> << <<s, int(ann.imageId), json_dumps(ann.labelId)>> >>]

\* if len(buffer) >= batch_size
should_flush_late(buf, bs) == Len(buf) > bs
should_flush(buf, bs) == Len(buf) >= bs

\* flush(): nothing for an empty buffer, else one COPY of the whole buffer
flush_full_batches_only(table_name, table, buf, tot) ==
    IF Len(buf) < batch_size
    THEN [err |-> "none", table |-> table, total |-> tot, buffer |-> buf]
    ELSE LET r == copy_rows(table_name, table, buf)
         IN IF r.err # "none"
            THEN [err |-> r.err, table |-> table, total |-> tot, buffer |-> buf]
            ELSE [err |-> "none", table |-> r.table,
                  total |-> tot + Len(buf), buffer |-> <<>>]
flush(table_name, table, buf, tot) ==
    IF buf = <<>>
    THEN [err |-> "none", table |-> table, total |-> tot, buffer |-> buf]
    ELSE LET r == copy_rows(table_name, table, buf)
         IN IF r.err # "none"
            THEN [err |-> r.err, table |-> table, total |-> tot, buffer |-> buf]
            ELSE [err |-> "none", table |-> r.table,
                  total |-> tot + Len(buf), buffer |-> <<>>]

\* if info_obj is None and license_obj is None
NoInfoLicense(data) == "info" \notin DOMAIN data /\ "license" \notin DOMAIN data

\* where load_imat_split_info_and_license goes after reading the file
InfoEntryWithoutDelete(data) ==
    IF NoInfoLicense(data) THEN "img_delete"
    ELSE IF "info" \in DOMAIN data THEN "info_copy" ELSE "license_copy"
InfoEntry(data) == IF NoInfoLicense(data) THEN "img_delete" ELSE "info_delete"

(* --------------------------- initial stores ---------------------------- *)
\* rows an earlier run left behind
OldImagesOf(s) ==
    << [split |-> s, image_id |-> 1, url |-> "http://old/1.jpg"],
       [split |-> s, image_id |-> 9, url |-> "http://old/9.jpg"] >>
OldAnnotationsOf(s) == << [split |-> s, image_id |-> 1, label_ids |-> <<"7">>] >>
OldInfoOf(s) == << [split |-> s, info |-> << <<"year", "2019">> >>] >>
OldLicenseOf(s) == << [split |-> s, license |-> << <<"name", "old">> >>] >>
OldLabels ==
    << [label_id |-> 1, task_id |-> 1, label_name |-> "old", task_name |-> "material"] >>

OldImages(F) ==
    (IF "train" \in F THEN OldImagesOf("train") ELSE <<>>)
    \o (IF "validation" \in F THEN OldImagesOf("validation") ELSE <<>>)
OldAnnotations(F) ==
    (IF "train" \in F THEN OldAnnotationsOf("train") ELSE <<>>)
    \o (IF "validation" \in F THEN OldAnnotationsOf("validation") ELSE <<>>)
OldInfo(F) ==
    (IF "train" \in F THEN OldInfoOf("train") ELSE <<>>)
    \o (IF "validation" \in F THEN OldInfoOf("validation") ELSE <<>>)
OldLicense(F) ==
    (IF "train" \in F THEN OldLicenseOf("train") ELSE <<>>)
    \o (IF "validation" \in F THEN OldLicenseOf("validation") ELSE <<>>)

\* the objects create_schema_and_tables creates, one statement each, in the
\* order of its cursor.execute calls
SchemaObjects ==
    <<"raw", "raw.imat_label_map", "raw.imat_info", "raw.imat_license",
      "raw.imat_images", "imat_images_image_id_idx", "raw.imat_annotations",
      "imat_annotations_image_id_idx", "imat_annotations_label_ids_gin">>
\* the objects the first n statements create
Created(n) == {SchemaObjects[k] : k \in 1..n}

EmptyDir == [xlsx |-> NoFile, train |-> NoFile, validation |-> NoFile]

\* the state before the first load of file d into split s with batch size
\* b, over a store that holds earlier rows of the splits in F
InitLoad(F, s, d, b) ==
        /\ images = OldImages(F)
        /\ annotations = OldAnnotations(F)
        /\ info = OldInfo(F)
        /\ license = OldLicense(F)
        /\ label_map = OldLabels
        /\ schema = Created(Len(SchemaObjects))
        /\ conn = "open"
        /\ imat_dir = EmptyDir
        /\ json = d
        /\ split = s
        /\ batch_size = b
        /\ pc = "idle"
        /\ mpc = "harness"
        /\ err = "none"
        /\ faulted = FALSE
        /\ buffer = <<>>
        /\ total = 0
        /\ pos = 0
        /\ log = <<>>
        /\ trace = <<>>
        /\ start = [images |-> OldImages(F), annotations |-> OldAnnotations(F),
                    info |-> OldInfo(F), license |-> OldLicense(F)]
        /\ prev_err = "never"
        /\ store0 = [images |-> OldImages(F), annotations |-> OldAnnotations(F),
                     info |-> OldInfo(F), license |-> OldLicense(F)]

\* load_imat_split(conn, json_path, split) called again and again on one
\* file: the streaming loaders run with their default batch_size
Init ==
    \E F \in SUBSET Splits, s \in Splits, d \in Docs :
        InitLoad(F, s, d, DefaultBatchSize)

\* the three loaders called in load_imat_split's order, again and again on
\* one file, with batch_size passed to the two streaming ones
InitBatch ==
    \E F \in SUBSET Splits, s \in Splits, d \in Docs, b \in 1..MaxBatch :
        InitLoad(F, s, d, b)

(* ------------------- load_imat_split_info_and_license ------------------ *)
Running == err = "none"

\* exists check, json.load, the skip test
InfoOpen ==
    /\ Running /\ pc = "info_open"
    /\ IF ~exists(json)
       THEN /\ err' = "FileNotFoundError"
            /\ UNCHANGED <<pc, log>>
       ELSE /\ pc' = InfoEntry(json)
            /\ log' = IF NoInfoLicense(json) THEN Append(log, <<"SKIP", split>>) ELSE log
            /\ UNCHANGED err
    /\ UNCHANGED <<tables, schema, conn, inputs, mpc, faulted, locals, trace,
                   start, prev_err>>

InfoDelete ==
    /\ Running /\ pc = "info_delete"
    /\ info' = DeleteSplit(info, split)
    /\ trace' = Append(trace, <<"DELETE", "raw.imat_info">>)
    /\ pc' = "license_delete"
    /\ UNCHANGED <<images, annotations, license, label_map, schema, conn, inputs,
                   mpc, err, faulted, locals, log, start, prev_err>>

LicenseDelete ==
    /\ Running /\ pc = "license_delete"
    /\ license' = DeleteSplit(license, split)
    /\ trace' = Append(trace, <<"DELETE", "raw.imat_license">>)
    /\ pc' = IF "info" \in DOMAIN json THEN "info_copy" ELSE "license_copy"
    /\ UNCHANGED <<images, annotations, info, label_map, schema, conn, inputs,
                   mpc, err, faulted, locals, log, start, prev_err>>

InfoCopy ==
    /\ Running /\ pc = "info_copy"
    /\ LET r == copy_rows("raw.imat_info", info,
                          << <<split, json_dumps_object(json.info)>> >>)
       IN /\ info' = r.table
          /\ err' = r.err
          /\ IF r.err # "none"
             THEN UNCHANGED <<pc, log>>
             ELSE IF "license" \in DOMAIN json
                  THEN pc' = "license_copy" /\ UNCHANGED log
                  ELSE /\ pc' = "img_delete"
                       /\ log' = Append(log, <<"OK", split, "info/license">>)
    /\ trace' = Append(trace, <<"COPY", "raw.imat_info">>)
    /\ UNCHANGED <<images, annotations, license, label_map, schema, conn, inputs,
                   mpc, faulted, locals, start, prev_err>>

LicenseCopy ==
    /\ Running /\ pc = "license_copy"
    /\ LET r == copy_rows("raw.imat_license", license,
                          << <<split, json_dumps_object(json.license)>> >>)
       IN /\ license' = r.table
          /\ err' = r.err
          /\ IF r.err # "none"
             THEN UNCHANGED <<pc, log>>
             ELSE /\ pc' = "img_delete"
                  /\ log' = Append(log, <<"OK", split, "info/license">>)
    /\ trace' = Append(trace, <<"COPY", "raw.imat_license">>)
    /\ UNCHANGED <<images, annotations, info, label_map, schema, conn, inputs,
                   mpc, faulted, locals, start, prev_err>>

(* ---------------------- load_imat_split_images ---------------------- *)
\* exists check, then DELETE FROM raw.imat_images WHERE split = %s
ImgDelete ==
    /\ Running /\ pc = "img_delete"
    /\ IF ~exists(json)
       THEN /\ err' = "FileNotFoundError"
            /\ UNCHANGED <<images, trace, pc>>
       ELSE /\ images' = DeleteSplit(images, split)
            /\ trace' = Append(trace, <<"DELETE", "raw.imat_images">>)
            /\ pc' = "img_next"
            /\ UNCHANGED err
    /\ UNCHANGED <<annotations, info, license, label_map, schema, conn, inputs, mpc, faulted,
                   locals, log, start, prev_err>>

\* the stream yields its next element, which is turned into a row and
\* appended to the buffer, or ends
ImgNext ==
    /\ Running /\ pc = "img_next"
    /\ IF pos = Len(json.images)
       THEN /\ pc' = "img_final"
            /\ UNCHANGED <<err, locals>>
       ELSE LET r == image_rows(split, json.images[pos + 1])
            IN IF r.err # "none"
               THEN /\ err' = r.err
                    /\ buffer' = <<>>
                    /\ total' = 0
                    /\ UNCHANGED <<pc, pos>>
               ELSE /\ buffer' = buffer \o r.rows
                    /\ pos' = pos + 1
                    /\ pc' = "img_check"
                    /\ UNCHANGED <<err, total>>
    /\ UNCHANGED <<tables, schema, conn, inputs, mpc, faulted, log, trace,
                   start, prev_err>>

\* if len(buffer) >= batch_size: flush()
ImgCheck ==
    /\ Running /\ pc = "img_check"
    /\ IF should_flush(buffer, batch_size)
       THEN LET f == flush("raw.imat_images", images, buffer, total)
            IN /\ images' = f.table
               /\ err' = f.err
               /\ trace' = IF buffer = <<>> THEN trace
                           ELSE Append(trace, <<"COPY", "raw.imat_images">>)
               /\ IF f.err # "none"
                  THEN buffer' = <<>> /\ total' = 0 /\ UNCHANGED pc
                  ELSE buffer' = f.buffer /\ total' = f.total /\ pc' = "img_next"
       ELSE /\ pc' = "img_next"
            /\ UNCHANGED <<images, err, trace, buffer, total>>
    /\ UNCHANGED <<annotations, info, license, label_map, schema, conn, inputs, mpc, faulted,
                   pos, log, start, prev_err>>

\* the flush() after the loop, and the notice with the total
ImgFinal ==
    /\ Running /\ pc = "img_final"
    /\ LET f == flush("raw.imat_images", images, buffer, total)
       IN /\ images' = f.table
          /\ err' = f.err
          /\ trace' = IF buffer = <<>> THEN trace
                      ELSE Append(trace, <<"COPY", "raw.imat_images">>)
          /\ buffer' = <<>>
          /\ total' = 0
          /\ IF f.err # "none"
             THEN UNCHANGED <<pc, pos, log>>
             ELSE /\ log' = Append(log, <<"OK", split, "images", f.total>>)
                  /\ pos' = 0
                  /\ pc' = "ann_delete"
    /\ UNCHANGED <<annotations, info, license, label_map, schema, conn, inputs, mpc, faulted,
                   start, prev_err>>

(* ---------------------- load_imat_split_annotations ---------------------- *)
\* exists check, then DELETE FROM raw.imat_annotations WHERE split = %s
AnnDelete ==
    /\ Running /\ pc = "ann_delete"
    /\ IF ~exists(json)
       THEN /\ err' = "FileNotFoundError"
            /\ UNCHANGED <<annotations, trace, pc>>
       ELSE /\ annotations' = DeleteSplit(annotations, split)
            /\ trace' = Append(trace, <<"DELETE", "raw.imat_annotations">>)
            /\ pc' = "ann_next"
            /\ UNCHANGED err
    /\ UNCHANGED <<images, info, license, label_map, schema, conn, inputs, mpc, faulted,
                   locals, log, start, prev_err>>

\* the stream yields its next element, which is turned into a row and
\* appended to the buffer, or ends
AnnNext ==
    /\ Running /\ pc = "ann_next"
    /\ IF pos = Len(json.annotations)
       THEN /\ pc' = "ann_final"
            /\ UNCHANGED <<err, locals>>
       ELSE LET r == annotation_rows(split, json.annotations[pos + 1])
            IN IF r.err # "none"
               THEN /\ err' = r.err
                    /\ buffer' = <<>>
                    /\ total' = 0
                    /\ UNCHANGED <<pc, pos>>
               ELSE /\ buffer' = buffer \o r.rows
                    /\ pos' = pos + 1
                    /\ pc' = "ann_check"
                    /\ UNCHANGED <<err, total>>
    /\ UNCHANGED <<tables, schema, conn, inputs, mpc, faulted, log, trace,
                   start, prev_err>>

\* if len(buffer) >= batch_size: flush()
AnnCheck ==
    /\ Running /\ pc = "ann_check"
    /\ IF should_flush(buffer, batch_size)
       THEN LET f == flush("raw.imat_annotations", annotations, buffer, total)
            IN /\ annotations' = f.table
               /\ err' = f.err
               /\ trace' = IF buffer = <<>> THEN trace
                           ELSE Append(trace, <<"COPY", "raw.imat_annotations">>)
               /\ IF f.err # "none"
                  THEN buffer' = <<>> /\ total' = 0 /\ UNCHANGED pc
                  ELSE buffer' = f.buffer /\ total' = f.total /\ pc' = "ann_next"
       ELSE /\ pc' = "ann_next"
            /\ UNCHANGED <<annotations, err, trace, buffer, total>>
    /\ UNCHANGED <<images, info, license, label_map, schema, conn, inputs, mpc, faulted,
                   pos, log, start, prev_err>>

\* the flush() after the loop, and the notice with the total
AnnFinal ==
    /\ Running /\ pc = "ann_final"
    /\ LET f == flush("raw.imat_annotations", annotations, buffer, total)
       IN /\ annotations' = f.table
          /\ err' = f.err
          /\ trace' = IF buffer = <<>> THEN trace
                      ELSE Append(trace, <<"COPY", "raw.imat_annotations">>)
          /\ buffer' = <<>>
          /\ total' = 0
          /\ IF f.err # "none"
             THEN UNCHANGED <<pc, pos, log>>
             ELSE /\ log' = Append(log, <<"OK", split, "annotations", f.total>>)
                  /\ pos' = 0
                  /\ pc' = "done"
    /\ UNCHANGED <<images, info, license, label_map, schema, conn, inputs, mpc, faulted,
                   start, prev_err>>

(* ------------------------------ the store ------------------------------ *)
\* the load is about to send a statement
AtStatement ==
    \/ pc \in {"info_delete", "license_delete", "info_copy", "license_copy"}
    \/ pc \in {"img_delete", "ann_delete"} /\ exists(json)
    \/ pc \in {"img_check", "ann_check"} /\ should_flush(buffer, batch_size)
    \/ pc \in {"img_final", "ann_final"} /\ buffer # <<>>

\* the store refuses the statement (connection lost, disk full, ...): the
\* statement changes nothing and the exception leaves the load
LoadStoreError ==
    /\ Running /\ ~faulted /\ AtStatement
    /\ err' = "StoreError"
    /\ faulted' = TRUE
    /\ buffer' = <<>>
    /\ total' = 0
    /\ UNCHANGED <<tables, schema, conn, inputs, pc, mpc, pos, log, trace,
                   start, prev_err>>

(* ------------------------------ the harness ---------------------------- *)
LoadEnded == pc = "done" \/ err # "none"

\* load_imat_split(conn, json_path, split), for the first time or again
BeginLoad ==
    /\ mpc = "harness"
    /\ pc = "idle" \/ LoadEnded
    /\ prev_err' = IF pc = "idle" THEN "never" ELSE err
    /\ err' = "none"
    /\ pc' = "info_open"
    /\ start' = Snapshot
    /\ log' = <<>>
    /\ trace' = <<>>
    /\ buffer' = <<>>
    /\ total' = 0
    /\ pos' = 0
    /\ UNCHANGED <<tables, schema, conn, inputs, mpc, faulted>>

LoadStep ==
    \/ InfoOpen \/ InfoDelete \/ LicenseDelete \/ InfoCopy \/ LicenseCopy
    \/ ImgDelete \/ ImgNext \/ ImgCheck \/ ImgFinal
    \/ AnnDelete \/ AnnNext \/ AnnCheck \/ AnnFinal
    \/ LoadStoreError

Next == BeginLoad \/ LoadStep

Spec == Init /\ [][Next]_vars

SpecBatch == InitBatch /\ [][Next]_vars

(* -------------------------------- main --------------------------------- *)
\* label_map_228.xlsx as read by pd.read_excel: the rows of the sheet
SheetRow(i) ==
    [labelId |-> i, taskId |-> 1, labelName |-> "label" \o ToString(i),
     taskName |-> "material"]
Sheet(ids) == [rows |-> [k \in 1..Len(ids) |-> SheetRow(ids[k])]]
Sheets == {NoFile, Sheet(<<1, 2, 3>>), Sheet(<<4, 4>>)}

\* generate(): one tuple per row of the sheet
generate(df) ==
    [k \in 1..Len(df.rows) |->
        <<df.rows[k].labelId, df.rows[k].taskId,
          df.rows[k].labelName, df.rows[k].taskName>>]

\* the end-to-end scenario's files, and some others
ScenarioTrain == Document(TRUE, TRUE, GoodImages(1), GoodAnns(1))
ScenarioValidation == Document(FALSE, FALSE, <<>>, <<>>)
MainDocs ==
    {ScenarioTrain, ScenarioValidation, NoFile,
     Document(TRUE, TRUE, <<GoodImage(1), NoUrlImage(2)>>, GoodAnns(1)),
     Document(FALSE, TRUE, GoodImages(2), GoodAnns(2))}

\* a run of main: over a store where the first n objects exist (none yet,
\* some after an earlier run whose schema initialisation was refused, or
\* all), the tables empty or, when all exist, holding the rows of an
\* earlier run
InitMain ==
    \E n \in 0..Len(SchemaObjects), kind \in {"empty", "old"}, x \in Sheets,
       d1 \in MainDocs, d2 \in MainDocs :
        LET F == IF kind = "old" THEN Splits ELSE {}
        IN /\ kind = "old" => n = Len(SchemaObjects)
           /\ images = OldImages(F)
           /\ annotations = OldAnnotations(F)
           /\ info = OldInfo(F)
           /\ license = OldLicense(F)
           /\ label_map = IF kind = "old" THEN OldLabels ELSE <<>>
           /\ schema = Created(n)
           /\ conn = "none"
           /\ imat_dir = [xlsx |-> x, train |-> d1, validation |-> d2]
           /\ json = NoFile
           /\ split = "train"
           /\ batch_size = DefaultBatchSize
           /\ pc = "idle"
           /\ mpc = "get_conn"
           /\ err = "none"
           /\ faulted = FALSE
           /\ buffer = <<>>
           /\ total = 0
           /\ pos = 0
           /\ log = <<>>
           /\ trace = <<>>
           /\ start = [images |-> OldImages(F), annotations |-> OldAnnotations(F),
                       info |-> OldInfo(F), license |-> OldLicense(F)]
           /\ prev_err = "never"
           /\ store0 = [images |-> OldImages(F), annotations |-> OldAnnotations(F),
                        info |-> OldInfo(F), license |-> OldLicense(F)]

\* main's position at the k-th statement of create_schema_and_tables
CreatePc(k) == "create " \o SchemaObjects[k]
CreatePcs == {CreatePc(k) : k \in 1..Len(SchemaObjects)}

\* the statements of the try block
TryBlock ==
    CreatePcs \cup
    {"label_open", "label_truncate", "label_copy",
     "load_train", "in_train", "load_validation", "in_validation"}

\* where an exception inside the try block goes: finally: conn.close()
OnExceptionWithoutFinally == "exit"
OnException == "close"

\* conn = get_conn()
GetConn ==
    /\ Running /\ mpc = "get_conn"
    /\ conn' = "open"
    /\ mpc' = CreatePc(1)
    /\ UNCHANGED <<tables, schema, inputs, pc, err, faulted, locals, log, trace,
                   start, prev_err>>

\* create_schema_and_tables, one cursor.execute per step, each committed
\* on its own: CREATE ... IF NOT EXISTS, nothing dropped
CreateSchema ==
    /\ Running
    /\ \E k \in 1..Len(SchemaObjects) :
          /\ mpc = CreatePc(k)
          /\ schema' = schema \cup {SchemaObjects[k]}
          /\ mpc' = IF k = Len(SchemaObjects) THEN "label_open"
                                              ELSE CreatePc(k + 1)
    /\ UNCHANGED <<tables, conn, inputs, pc, err, faulted, locals, log, trace,
                   start, prev_err>>

\* load_label_map: exists check and pd.read_excel
LabelOpen ==
    /\ Running /\ mpc = "label_open"
    /\ IF ~exists(imat_dir.xlsx)
       THEN err' = "FileNotFoundError" /\ UNCHANGED mpc
       ELSE mpc' = "label_truncate" /\ UNCHANGED err
    /\ UNCHANGED <<tables, schema, conn, inputs, pc, faulted, locals, log, trace,
                   start, prev_err>>

\* TRUNCATE raw.imat_label_map
LabelTruncate ==
    /\ Running /\ mpc = "label_truncate"
    /\ label_map' = <<>>
    /\ mpc' = "label_copy"
    /\ UNCHANGED <<images, annotations, info, license, schema, conn, inputs, pc,
                   err, faulted, locals, log, trace, start, prev_err>>

\* copy_rows(conn, "raw.imat_label_map", ..., generate()) and the notice
LabelCopy ==
    /\ Running /\ mpc = "label_copy"
    /\ LET r == copy_rows("raw.imat_label_map", label_map, generate(imat_dir.xlsx))
       IN /\ label_map' = r.table
          /\ err' = r.err
          /\ IF r.err # "none"
             THEN UNCHANGED <<mpc, log>>
             ELSE /\ mpc' = "load_train"
                  /\ log' = Append(log, <<"OK", "label_map", Len(imat_dir.xlsx.rows)>>)
    /\ UNCHANGED <<images, annotations, info, license, schema, conn, inputs, pc,
                   faulted, locals, trace, start, prev_err>>

\* load_imat_split(conn, imat_dir / "train.json", "train"), then the same
\* for validation
CallLoad ==
    /\ Running /\ mpc \in {"load_train", "load_validation"} /\ pc = "idle"
    /\ split' = IF mpc = "load_train" THEN "train" ELSE "validation"
    /\ json' = IF mpc = "load_train" THEN imat_dir.train ELSE imat_dir.validation
    /\ mpc' = IF mpc = "load_train" THEN "in_train" ELSE "in_validation"
    /\ pc' = "info_open"
    /\ start' = Snapshot
    /\ trace' = <<>>
    /\ UNCHANGED <<tables, schema, conn, imat_dir, batch_size, store0, err,
                   faulted, locals, log, prev_err>>

\* load_imat_split returns
ReturnLoad ==
    /\ Running /\ mpc \in {"in_train", "in_validation"} /\ pc = "done"
    /\ pc' = "idle"
    /\ mpc' = IF mpc = "in_train" THEN "load_validation" ELSE "close"
    /\ UNCHANGED <<tables, schema, conn, inputs, err, faulted, locals, log,
                   trace, start, prev_err>>

\* an exception leaves the try block
Finally ==
    /\ ~Running /\ mpc \in TryBlock
    /\ mpc' = OnException
    /\ UNCHANGED <<tables, schema, conn, inputs, pc, err, faulted, locals, log,
                   trace, start, prev_err>>

\* conn.close()
Close ==
    /\ mpc = "close"
    /\ conn' = "closed"
    /\ mpc' = "exit"
    /\ UNCHANGED <<tables, schema, inputs, pc, err, faulted, locals, log, trace,
                   start, prev_err>>

\* the store refuses get_conn or a statement of main's own steps
MainStoreError ==
    /\ Running /\ ~faulted
    /\ mpc \in {"get_conn", "label_truncate", "label_copy"} \cup CreatePcs
    /\ err' = "StoreError"
    /\ faulted' = TRUE
    /\ mpc' = IF mpc = "get_conn" THEN "exit" ELSE mpc
    /\ UNCHANGED <<tables, schema, conn, inputs, pc, locals, log, trace, start,
                   prev_err>>

NextMain ==
    \/ GetConn \/ CreateSchema \/ LabelOpen \/ LabelTruncate \/ LabelCopy
    \/ CallLoad \/ ReturnLoad \/ Finally \/ Close \/ MainStoreError
    \/ LoadStep

SpecMain == InitMain /\ [][NextMain]_vars

(* ------------------------- what the claims use ------------------------- *)
InLog(e) == \E i \in 1..Len(log) : log[i] = e
Count(seq, tag) == Cardinality({i \in 1..Len(seq) : seq[i][1] = tag})

\* the rows a document's arrays stand for
ExpectedImages(s, d) ==
    [i \in 1..Len(d.images) |->
        [split |-> s, image_id |-> int(d.images[i].imageId), url |-> d.images[i].url]]
ExpectedAnnotations(s, d) ==
    [i \in 1..Len(d.annotations) |->
        [split |-> s, image_id |-> int(d.annotations[i].imageId),
         label_ids |-> d.annotations[i].labelId]]
ExpectedInfo(s, d) ==
    IF "info" \in DOMAIN d THEN << [split |-> s, info |-> d.info] >> ELSE <<>>
ExpectedLicense(s, d) ==
    IF "license" \in DOMAIN d THEN << [split |-> s, license |-> d.license] >> ELSE <<>>

PastImages == pc \in {"ann_delete", "ann_next", "ann_check", "ann_final", "done"}
Others == Splits \ {split}

(* -------------------------------- claims ------------------------------- *)
\* C1: when a load of a split and document has completed and the same load
\* is run again, the second load completes too and leaves the info,
\* license, images and annotations tables exactly as the first left them
\* (unless the store itself refuses a statement of the second load).
C1_Idempotent ==
    (mpc = "harness" /\ LoadEnded /\ prev_err = "none" /\ err # "StoreError")
        => (err = "none" /\ Snapshot = start)

C1_Witness ==
    /\ mpc = "harness" /\ pc = "done" /\ prev_err = "none"
    /\ RowsOf(store0.images, split) # <<>>
    /\ RowsOf(images, split) # <<>>
    /\ RowsOf(info, split) # <<>>
    /\ Snapshot = start

\* C2 (as claimed): a completed load of a document with neither "info" nor
\* "license" leaves no info and no license row of the split, and has
\* printed the skip notice.
C2_SkipLeavesNoRows ==
    (pc = "done" /\ err = "none" /\ NoInfoLicense(json))
        => /\ RowsOf(info, split) = <<>>
           /\ RowsOf(license, split) = <<>>
           /\ InLog(<<"SKIP", split>>)

\* C3 (as claimed): no COPY of a load is sent before all four DELETEs of
\* the load have been sent.
C3_AllDeletesFirst ==
    \A i \in 1..Len(trace) :
        trace[i][1] = "COPY" =>
            \A tb \in {"raw.imat_images", "raw.imat_annotations",
                       "raw.imat_info", "raw.imat_license"} :
                \E j \in 1..(i - 1) : trace[j] = <<"DELETE", tb>>

\* C3 (amended): every COPY into a table is sent after the load's DELETE on
\* that same table, and a COPY into info or license after the DELETEs on
\* both of them.
C3_DeleteBeforeCopyPerTable ==
    \A i \in 1..Len(trace) :
        trace[i][1] = "COPY" =>
            /\ \E j \in 1..(i - 1) : trace[j] = <<"DELETE", trace[i][2]>>
            /\ trace[i][2] \in {"raw.imat_info", "raw.imat_license"} =>
                  /\ \E j \in 1..(i - 1) : trace[j] = <<"DELETE", "raw.imat_info">>
                  /\ \E j \in 1..(i - 1) : trace[j] = <<"DELETE", "raw.imat_license">>

C3_Witness ==
    /\ pc = "done"
    /\ \E i, j, k \in 1..Len(trace) :
          /\ i < j /\ j < k
          /\ trace[i] = <<"COPY", "raw.imat_info">>
          /\ trace[j] = <<"DELETE", "raw.imat_images">>
          /\ trace[k] = <<"COPY", "raw.imat_images">>

\* C4: once the images step has completed, the images table holds, for the
\* split, exactly the rows of the N elements in document order and the
\* notice reports N; the same for annotations once the load has completed.
C4_AllRowsWritten ==
    /\ (PastImages /\ exists(json)) =>
          /\ RowsOf(images, split) = ExpectedImages(split, json)
          /\ InLog(<<"OK", split, "images", Len(json.images)>>)
    /\ (pc = "done") =>
          /\ RowsOf(annotations, split) = ExpectedAnnotations(split, json)
          /\ InLog(<<"OK", split, "annotations", Len(json.annotations)>>)

C4_Witness ==
    /\ pc = "done"
    /\ batch_size > 1
    /\ Len(json.images) = batch_size + 1
    /\ Len(json.annotations) = batch_size - 1
    /\ Len(RowsOf(images, split)) = batch_size + 1

\* the load has raised KeyError on an element of the images array
FailedOnImage == err = "KeyError" /\ pc = "img_next"
HasNoUrl(d) ==
    exists(d) /\ \E i \in 1..Len(d.images) : "url" \notin DOMAIN d.images[i]
ImageIds == {images[i].image_id : i \in {k \in 1..Len(images) : images[k].split = split}}
AnnotationIds ==
    {annotations[i].image_id :
        i \in {k \in 1..Len(annotations) : annotations[k].split = split}}

\* C5 (as claimed): after the failure on an element without "url", no
\* image rows of the split remain committed, or those that remain match the
\* split's annotation rows.
C5_NoPartialImages ==
    FailedOnImage => (RowsOf(images, split) = <<>> \/ ImageIds = AnnotationIds)

\* C5 (amended): reaching an image element without "url" raises KeyError
\* and the element is not skipped, so a load of such a document never gets
\* past the images step; when it raises on that element, the
\* images table holds for the split the rows of the full batches flushed
\* before it, and the split's annotation rows are those from before the
\* load.
C5_FailsKeepingFlushedBatches ==
    /\ [][(/\ pc = "img_next" /\ err = "none" /\ pos < Len(json.images)
           /\ "url" \notin DOMAIN json.images[pos + 1])
            => (err' = "KeyError" /\ images' = images /\ pos' = pos)]_vars
    /\ [](HasNoUrl(json) => (~PastImages /\ pc # "img_final"))
    /\ [](FailedOnImage =>
            /\ RowsOf(images, split) =
                  SubSeq(ExpectedImages(split, [images |-> SubSeq(json.images, 1, pos)]),
                         1, batch_size * (pos \div batch_size))
            /\ RowsOf(annotations, split) = RowsOf(start.annotations, split))

C5_Witness ==
    /\ FailedOnImage
    /\ "url" \notin DOMAIN json.images[pos + 1]
    /\ pos > 1
    /\ RowsOf(images, split) # <<>>
    /\ RowsOf(annotations, split) # <<>>

\* C6 (as claimed): a completed load that follows a failed load of the
\* split leaves the four tables, for the split, as a load of the document
\* into an empty store would.
C6_RerunRepairs ==
    (mpc = "harness" /\ pc = "done" /\ prev_err \notin {"never", "none"})
        => /\ RowsOf(images, split) = ExpectedImages(split, json)
           /\ RowsOf(annotations, split) = ExpectedAnnotations(split, json)
           /\ RowsOf(info, split) = ExpectedInfo(split, json)
           /\ RowsOf(license, split) = ExpectedLicense(split, json)

\* the directory of the end-to-end scenario
ScenarioRun ==
    imat_dir = [xlsx |-> Sheet(<<1, 2, 3>>), train |-> ScenarioTrain,
                validation |-> ScenarioValidation]

\* C7 (as claimed): the scenario ends with 3 label rows, 1 image and 1
\* annotation row (train, label_ids ["5","9"]), exactly 1 info and 1
\* license row (train), no validation row in any of the four tables, and
\* two skip notices.
C7_ScenarioTwoSkips ==
    (ScenarioRun /\ mpc = "exit" /\ err = "none")
        => /\ Len(label_map) = 3
           /\ RowsOf(images, "train") = ExpectedImages("train", ScenarioTrain)
           /\ Len(RowsOf(annotations, "train")) = 1
           /\ RowsOf(annotations, "train")[1].label_ids = <<"5", "9">>
           /\ Len(info) = 1 /\ info[1].split = "train"
           /\ Len(license) = 1 /\ license[1].split = "train"
           /\ RowsOf(images, "validation") = <<>>
           /\ RowsOf(annotations, "validation") = <<>>
           /\ Count(log, "SKIP") = 2

\* C7 (amended): unless the store refuses a statement, the scenario ends
\* without error with 3 label rows, 1 image and 1 annotation row (train,
\* label_ids ["5","9"]), exactly 1 info and 1 license row of train, no
\* validation row in images and annotations, the validation rows of info
\* and license being those the store held before the run, and one skip
\* notice.
C7_ScenarioOneSkip ==
    (ScenarioRun /\ mpc = "exit" /\ ~faulted)
        => /\ err = "none"
           /\ Len(label_map) = 3
           /\ RowsOf(images, "train") = ExpectedImages("train", ScenarioTrain)
           /\ Len(RowsOf(annotations, "train")) = 1
           /\ RowsOf(annotations, "train")[1].label_ids = <<"5", "9">>
           /\ RowsOf(info, "train") = ExpectedInfo("train", ScenarioTrain)
           /\ RowsOf(license, "train") = ExpectedLicense("train", ScenarioTrain)
           /\ RowsOf(images, "validation") = <<>>
           /\ RowsOf(annotations, "validation") = <<>>
           /\ RowsOf(info, "validation") = RowsOf(store0.info, "validation")
           /\ RowsOf(license, "validation") = RowsOf(store0.license, "validation")
           /\ Count(log, "SKIP") = 1
           /\ InLog(<<"SKIP", "validation">>)

C7_Witness ==
    /\ ScenarioRun /\ mpc = "exit" /\ err = "none"
    /\ store0.info = <<>>
    /\ Len(images) = 1 /\ Len(annotations) = 1 /\ Len(info) = 1 /\ Len(license) = 1

\* the order main takes its steps in
MainEdges ==
    {<<"get_conn", CreatePc(1)>>, <<"get_conn", "exit">>,
     <<CreatePc(Len(SchemaObjects)), "label_open">>,
     <<"label_open", "label_truncate">>,
     <<"label_truncate", "label_copy">>, <<"label_copy", "load_train">>,
     <<"load_train", "in_train">>, <<"in_train", "load_validation">>,
     <<"load_validation", "in_validation">>, <<"close", "exit">>}
    \cup {<<CreatePc(k), CreatePc(k + 1)>> : k \in 1..(Len(SchemaObjects) - 1)}
    \cup {<<m, "close">> : m \in TryBlock}

\* C8: main moves only forward through get_conn, schema, label map, train,
\* validation; once a step has failed nothing is written to the store any
\* more; and main ends with the connection closed (or never opened, when
\* get_conn itself failed).
C8_OrderFailFastClose ==
    [][/\ mpc' # mpc => <<mpc, mpc'>> \in MainEdges
       /\ (mpc' = "close" /\ mpc # "in_validation") => err # "none"
       /\ err # "none" => (tables' = tables /\ schema' = schema /\ err' = err)
       /\ (mpc' = "exit" /\ mpc # "exit") =>
             (conn' = "closed" \/ (mpc = "get_conn" /\ conn' = "none"))]_vars

C8_Witness ==
    /\ mpc = "exit" /\ conn = "closed"
    /\ err = "KeyError" /\ split = "train"
    /\ RowsOf(info, "train") # RowsOf(store0.info, "train")
    /\ RowsOf(images, "train") = <<>>
    /\ log # <<>>

\* C9: the buffer never holds more than batch_size rows, holds fewer when
\* the next row is about to be added, and a flush inside the loop writes
\* exactly batch_size rows.
C9_BufferBounded ==
    /\ [](Len(buffer) <= batch_size)
    /\ [](pc \in {"img_next", "ann_next"} => Len(buffer) < batch_size)
    /\ [][(pc \in {"img_check", "ann_check"} /\ <<images, annotations>>' # <<images, annotations>>)
            => (Len(images') + Len(annotations')
                  = Len(images) + Len(annotations) + batch_size)]_vars

C9_Witness ==
    /\ pc = "img_check" /\ err = "none"
    /\ batch_size > 1
    /\ Len(buffer) = batch_size
    /\ pos < Len(json.images)

\* C10: no step of a load of split S changes a row of another split in the
\* images, annotations, info and license tables, nor the label map.
C10_OtherSplitsUntouched ==
    [][\A s \in Others :
          /\ RowsOf(images', s) = RowsOf(images, s)
          /\ RowsOf(annotations', s) = RowsOf(annotations, s)
          /\ RowsOf(info', s) = RowsOf(info, s)
          /\ RowsOf(license', s) = RowsOf(license, s)
          /\ label_map' = label_map]_vars

C10_Witness ==
    /\ LoadEnded
    /\ RowsOf(images, split) # RowsOf(store0.images, split)
    /\ RowsOf(info, split) # RowsOf(store0.info, split)
    /\ \E s \in Others : RowsOf(images, s) # <<>> /\ RowsOf(info, s) # <<>>
    /\ label_map # <<>>
=============================================================================
